---- MODULE Spec2Model ----
(***************************************************************************)
(* Model of the local Qwen3-TTS REST server (Scripts/server.py).           *)
(*                                                                         *)
(* The process runs the __main__ block: load_model(), then app.run().      *)
(* app.run() is Flask's development server, which handles every request    *)
(* in a thread of its own, so the handlers interleave statement by         *)
(* statement on the shared globals and on the two directories.             *)
(***************************************************************************)
EXTENDS Naturals, Sequences, FiniteSets

\* ------------------------------------------------------------------ bounds
NThreads == 2       \* request threads of the threaded server that may overlap
MaxRequests == 3    \* requests accepted in one run
MaxTime == 1        \* the clock int(time.time()) runs over 0..MaxTime
MaxRuns == 2        \* invocations of the command-line client

Threads == 1..NThreads
Times == 0..MaxTime

\* ------------------------------------------------------------- value sets
Absent == "<absent>"         \* a key that is not in the form / JSON object
JsonNumber == "<number>"     \* a JSON value that is truthy and not a string
NoFile == "<no file>"        \* the path does not exist
Empty == "<empty file>"      \* the file exists and holds no complete JSON text
Default == "<default voice>" \* processor(text=...) without audio=

IDS == {"id1", "id2"}               \* values of str(uuid.uuid4())[:8]
NameArgs == {"Alice", Absent}       \* form field "name"
AudioArgs == {"", "wavA"}           \* bytes of the multipart part "audio"
TextArgs == {Absent, "", "hello"}   \* JSON field "text"
VoiceArgs == {Absent, "", "id1", JsonNumber}   \* JSON field "voice_id"

\* f"voice_{int(time.time())}"
DefaultName(now) == <<"voice_0", "voice_1", "voice_2", "voice_3">>[now + 1]

\* dict.get(key, default): the default only when the key is absent
Get(value, default) == IF value = Absent THEN default ELSE value

\* Python truthiness of a JSON value as used by `not text` and `voice_id and`
Truthy(value) == value # "" /\ value # Absent

\* the requests a client may send to the four routes
HealthReq == {[op |-> "health"]}
CloneReq ==
    {[op |-> "clone", audio |-> Absent, name |-> Absent]}
    \cup [op : {"clone"}, audio : AudioArgs, name : NameArgs]
TtsReq ==
    {[op |-> "tts", body |-> "nonobject", text |-> Absent, voice_id |-> Absent]}
    \cup [op : {"tts"}, body : {"object"}, text : TextArgs \ {"hello"}, voice_id : {Absent}]
    \cup [op : {"tts"}, body : {"object"}, text : {"hello"}, voice_id : VoiceArgs]
VoicesReq == {[op |-> "voices"]}
Requests == HealthReq \cup CloneReq \cup TtsReq \cup VoicesReq

NoReq == [op |-> "none"]
NoResp == [status |-> 0, kind |-> "none", data |-> <<>>]
\* meta.json: absent, created and still empty, or holding the dumped record
NoMeta == [file |-> NoFile, name |-> "", voice_id |-> ""]
EmptyMeta == [file |-> Empty, name |-> "", voice_id |-> ""]
MetaJson(name, voice_id) == [file |-> "json", name |-> name, voice_id |-> voice_id]
NoDir == [dir |-> FALSE, audio |-> NoFile, meta |-> NoMeta]
\* memo_<time>.wav: absent, or the samples of one synthesis, which are
\* determined by the text and the reference audio the processor was given
NoWav == [file |-> NoFile, text |-> "", ref |-> ""]
Wav(inputs) == [file |-> "wav", text |-> inputs.text, ref |-> inputs.ref]
NoInputs == [text |-> "", ref |-> ""]

VARIABLES
    main,        \* position of the __main__ block
    processor,   \* global processor: "None" or "loaded"
    model,       \* global model: "None" or "loaded"
    clock,       \* int(time.time())
    VOICES_DIR,  \* id -> [dir, audio (reference.wav), meta (meta.json)]
    OUTPUT_DIR,  \* time -> memo_<time>.wav: NoFile or the samples written
    pc,          \* thread -> position in its handler
    req,         \* thread -> the request it handles
    frame,       \* thread -> the handler's local variables
    accepted,    \* number of requests accepted so far
    returned,    \* history: the bodies of the successful Clone responses
    sent,        \* history: the response sent last, with its request
    cli,         \* the client process (speak.py): position, arguments, channels
    CACHE_DIR,   \* the client's OUTPUT_DIR: time -> tts_<time>.wav, NoFile or bytes
    runs,        \* number of client invocations started so far
    saved        \* history: path and bytes of every successful generate()

vars == <<main, processor, model, clock, VOICES_DIR, OUTPUT_DIR,
          pc, req, frame, accepted, returned, sent,
          cli, CACHE_DIR, runs, saved>>

NoFrame == [voice_id |-> "", name |-> "", todo |-> {}, voices |-> <<>>,
            inputs |-> NoInputs, output_path |-> 0, invoked |-> FALSE, seen |-> 0]

\* the parsed command line of speak.py (argparse namespace)
NoArgs == [status |-> FALSE, list |-> FALSE, text |-> Absent, voice |-> Absent]
\* no client process yet
NoClient == [pc |-> "off", argv |-> NoArgs, stdout |-> <<>>, stderr |-> <<>>,
             exit |-> 0, wire |-> <<>>, wrote |-> {}, outcome |-> "none",
             body |-> "", output_path |-> 0]

NoSent == [req |-> NoReq, resp |-> NoResp, invoked |-> FALSE, seen |-> 0]

Init ==
    /\ main = "start"
    /\ processor = "None"
    /\ model = "None"
    /\ clock = 0
    /\ VOICES_DIR = [d \in IDS |-> NoDir]
    /\ OUTPUT_DIR = [t \in Times |-> NoWav]
    /\ pc = [t \in Threads |-> "idle"]
    /\ req = [t \in Threads |-> NoReq]
    /\ frame = [t \in Threads |-> NoFrame]
    /\ accepted = 0
    /\ returned = <<>>
    /\ sent = NoSent
    /\ cli = NoClient
    /\ CACHE_DIR = [t \in Times |-> NoFile]
    /\ runs = 0
    /\ saved = <<>>

fsVars == <<VOICES_DIR, OUTPUT_DIR>>
globVars == <<main, processor, model>>
thrVars == <<pc, req, frame, accepted, returned, sent>>
cliVars == <<cli, CACHE_DIR, runs, saved>>
srvVars == <<globVars, fsVars, thrVars>>

\* ------------------------------------------------------- __main__, load_model
\* line 35: processor = AutoProcessor.from_pretrained(...)
load_processor ==
    /\ main = "start"
    /\ processor' = "loaded"
    /\ main' = "load_model"
    /\ UNCHANGED <<cliVars, model, clock, fsVars, thrVars>>

\* lines 36-42: model = AutoModelForCausalLM.from_pretrained(...)
load_model ==
    /\ main = "load_model"
    /\ model' = "loaded"
    /\ main' = "loaded"
    /\ UNCHANGED <<cliVars, processor, clock, fsVars, thrVars>>

\* (mutant) the failed load is swallowed and the block goes on to app.run()
load_fail_ignored ==
    /\ main \in {"start", "load_model"}
    /\ main' = "loaded"
    /\ UNCHANGED <<cliVars, processor, model, clock, fsVars, thrVars>>

\* an exception in load_model() (import, from_pretrained) is not caught:
\* the interpreter exits before app.run() is reached
load_fail ==
    /\ main \in {"start", "load_model"}
    /\ main' = "exited"
    /\ UNCHANGED <<cliVars, processor, model, clock, fsVars, thrVars>>

\* (mutant) app.run() is reached without waiting for load_model()
app_run_early ==
    /\ main \in {"start", "load_model", "loaded"}
    /\ main' = "serving"
    /\ UNCHANGED <<cliVars, processor, model, clock, fsVars, thrVars>>

\* line 135: app.run(...)
app_run ==
    /\ main = "loaded"
    /\ main' = "serving"
    /\ UNCHANGED <<cliVars, processor, model, clock, fsVars, thrVars>>

\* --------------------------------------------------------------- dispatch
\* a response: the status, the kind of body and the body's content.
\* "error" is the handler's own jsonify({"error": message}); "html" is the
\* server's generic 500 page for an exception no handler caught.
Response(status, kind, data) == [status |-> status, kind |-> kind, data |-> data]

\* the handler returns: the response goes out and the thread ends
Finish(t, r) ==
    /\ sent' = [req |-> req[t], resp |-> r,
                invoked |-> frame[t].invoked, seen |-> frame[t].seen]
    /\ req' = [req EXCEPT ![t] = NoReq]
    /\ frame' = [frame EXCEPT ![t] = NoFrame]
    /\ pc' = [pc EXCEPT ![t] = "idle"]

Free(t) == pc[t] = "idle"

\* the server dispatches a request to the route's handler in a thread of
\* its own (the threads are interchangeable: the first free one is taken)
Accept(t, r) ==
    /\ main = "serving"
    /\ Free(t)
    /\ \A u \in Threads : u < t => ~Free(u)
    /\ accepted < MaxRequests
    /\ accepted' = accepted + 1
    /\ req' = [req EXCEPT ![t] = r]
    /\ frame' = [frame EXCEPT ![t] = [NoFrame EXCEPT !.seen = Len(returned)]]
    /\ pc' = [pc EXCEPT ![t] = r.op]
    /\ UNCHANGED <<cliVars, globVars, clock, fsVars, returned, sent>>

\* ----------------------------------------------------------------- health
\* (mutant) health waits for the model while a synthesis is using it
health_locked(t) ==
    /\ pc[t] = "health"
    /\ \A u \in Threads : pc[u] \notin {"tts_generate", "tts_decode"}
    /\ Finish(t, Response(200, "health", <<"ok">>))
    /\ UNCHANGED <<cliVars, globVars, clock, fsVars, accepted, returned>>

\* lines 45-47
health(t) ==
    /\ pc[t] = "health"
    /\ Finish(t, Response(200, "health", <<"ok">>))
    /\ UNCHANGED <<cliVars, globVars, clock, fsVars, accepted, returned>>

\* ------------------------------------------------------------ clone_voice
\* (mutant) the directory is made before the audio part is looked for
clone_no_audio_late(t) ==
    /\ pc[t] = "clone"
    /\ req[t].audio = Absent
    /\ \E id \in IDS : VOICES_DIR' = [VOICES_DIR EXCEPT ![id].dir = TRUE]
    /\ Finish(t, Response(400, "error", <<"No audio file">>))
    /\ UNCHANGED <<cliVars, globVars, clock, OUTPUT_DIR, accepted, returned>>

\* lines 52-53
clone_no_audio(t) ==
    /\ pc[t] = "clone"
    /\ req[t].audio = Absent
    /\ Finish(t, Response(400, "error", <<"No audio file">>))
    /\ UNCHANGED <<cliVars, globVars, clock, fsVars, accepted, returned>>

\* lines 55-60: the name, a fresh uuid4 prefix, makedirs(exist_ok=True)
clone_makedirs(t) ==
    /\ pc[t] = "clone"
    /\ req[t].audio # Absent
    /\ \E id \in IDS :
        /\ frame' = [frame EXCEPT ![t].voice_id = id,
                                  ![t].name = Get(req[t].name, DefaultName(clock))]
        /\ VOICES_DIR' = [VOICES_DIR EXCEPT ![id].dir = TRUE]
    /\ pc' = [pc EXCEPT ![t] = "clone_save"]
    /\ UNCHANGED <<cliVars, globVars, clock, OUTPUT_DIR, req, accepted, returned, sent>>

\* lines 62-63: audio_file.save(audio_path)
clone_save(t) ==
    /\ pc[t] = "clone_save"
    /\ VOICES_DIR' = [VOICES_DIR EXCEPT ![frame[t].voice_id].audio = req[t].audio]
    /\ pc' = [pc EXCEPT ![t] = "clone_open"]
    /\ UNCHANGED <<cliVars, globVars, clock, OUTPUT_DIR, req, frame, accepted, returned, sent>>

\* line 67: open(meta.json, "w") creates or truncates the file
clone_open(t) ==
    /\ pc[t] = "clone_open"
    /\ VOICES_DIR' = [VOICES_DIR EXCEPT ![frame[t].voice_id].meta = EmptyMeta]
    /\ pc' = [pc EXCEPT ![t] = "clone_dump"]
    /\ UNCHANGED <<cliVars, globVars, clock, OUTPUT_DIR, req, frame, accepted, returned, sent>>

\* line 68 and the end of the with block: the record reaches the file
clone_dump(t) ==
    /\ pc[t] = "clone_dump"
    /\ VOICES_DIR' = [VOICES_DIR EXCEPT ![frame[t].voice_id].meta =
                        MetaJson(frame[t].name, frame[t].voice_id)]
    /\ pc' = [pc EXCEPT ![t] = "clone_return"]
    /\ UNCHANGED <<cliVars, globVars, clock, OUTPUT_DIR, req, frame, accepted, returned, sent>>

\* line 70
clone_return(t) ==
    /\ pc[t] = "clone_return"
    /\ Finish(t, Response(200, "clone",
                <<[voice_id |-> frame[t].voice_id, name |-> frame[t].name]>>))
    /\ returned' = Append(returned, [voice_id |-> frame[t].voice_id,
                                     name |-> frame[t].name,
                                     audio |-> req[t].audio])
    /\ UNCHANGED <<cliVars, globVars, clock, fsVars, accepted>>

\* lines 63, 67, 68 outside any try: an OSError leaves the handler
clone_io_error(t) ==
    /\ pc[t] \in {"clone_save", "clone_open", "clone_dump"}
    /\ Finish(t, Response(500, "html", <<"OSError">>))
    /\ UNCHANGED <<cliVars, globVars, clock, fsVars, accepted, returned>>

\* --------------------------------------------------------- text_to_speech
\* a thread is inside the inference section from its processor call to
\* the end of processor.decode
InferenceSection == {"tts_generate", "tts_decode"}

\* lines 78-79: request.get_json() gave something that is not a dict, and
\* data.get raises AttributeError before the try block is entered
tts_bad_body(t) ==
    /\ pc[t] = "tts"
    /\ req[t].body = "nonobject"
    /\ Finish(t, Response(500, "html", <<"AttributeError">>))
    /\ UNCHANGED <<cliVars, globVars, clock, fsVars, accepted, returned>>

\* lines 78-83
tts_no_text(t) ==
    /\ pc[t] = "tts"
    /\ req[t].body = "object"
    /\ ~Truthy(Get(req[t].text, ""))
    /\ Finish(t, Response(400, "error", <<"No text provided">>))
    /\ UNCHANGED <<cliVars, globVars, clock, fsVars, accepted, returned>>

\* os.path.exists(os.path.join(VOICES_DIR, voice_id, "reference.wav"))
ReferenceExists(voice_id) ==
    /\ voice_id \in IDS
    /\ VOICES_DIR[voice_id].audio # NoFile

\* lines 78-88: the text is there; the condition of line 87 picks the branch
tts_resolve(t) ==
    /\ pc[t] = "tts"
    /\ req[t].body = "object"
    /\ Truthy(Get(req[t].text, ""))
    /\ LET voice_id == Get(req[t].voice_id, "") IN
        /\ voice_id # JsonNumber
        /\ frame' = [frame EXCEPT
              ![t].voice_id = IF Truthy(voice_id) /\ ReferenceExists(voice_id)
                              THEN voice_id ELSE ""]
    /\ pc' = [pc EXCEPT ![t] = "tts_processor"]
    /\ UNCHANGED <<cliVars, globVars, clock, fsVars, req, accepted, returned, sent>>

\* line 87 with a truthy voice_id that is not a string: os.path.join raises
\* TypeError inside the try block, and line 119 answers
tts_resolve_error(t) ==
    /\ pc[t] = "tts"
    /\ req[t].body = "object"
    /\ Truthy(Get(req[t].text, ""))
    /\ Get(req[t].voice_id, "") = JsonNumber
    /\ Finish(t, Response(500, "error", <<"TypeError">>))
    /\ UNCHANGED <<cliVars, globVars, clock, fsVars, accepted, returned>>

\* lines 90-104: processor(text=..., audio=ref_audio) reads the reference
\* file, or processor(text=...) without one
tts_processor(t) ==
    /\ pc[t] = "tts_processor"
    /\ frame' = [frame EXCEPT
          ![t].inputs = [text |-> req[t].text,
                         ref |-> IF frame[t].voice_id = "" THEN Default
                                 ELSE VOICES_DIR[frame[t].voice_id].audio],
          ![t].invoked = TRUE]
    /\ pc' = [pc EXCEPT ![t] = "tts_generate"]
    /\ UNCHANGED <<cliVars, globVars, clock, fsVars, req, accepted, returned, sent>>

\* lines 106-107: model.generate(**inputs, max_new_tokens=2048)
tts_generate(t) ==
    /\ pc[t] = "tts_generate"
    /\ pc' = [pc EXCEPT ![t] = "tts_decode"]
    /\ UNCHANGED <<cliVars, globVars, clock, fsVars, req, frame, accepted, returned, sent>>

\* line 110: processor.decode(output[0], return_tensors=False)
tts_decode(t) ==
    /\ pc[t] = "tts_decode"
    /\ pc' = [pc EXCEPT ![t] = "tts_write"]
    /\ UNCHANGED <<cliVars, globVars, clock, fsVars, req, frame, accepted, returned, sent>>

\* lines 113-114: sf.write(memo_<int(time.time())>.wav, audio_array, 24000)
tts_write(t) ==
    /\ pc[t] = "tts_write"
    /\ OUTPUT_DIR' = [OUTPUT_DIR EXCEPT ![clock] = Wav(frame[t].inputs)]
    /\ frame' = [frame EXCEPT ![t].output_path = clock]
    /\ pc' = [pc EXCEPT ![t] = "tts_send"]
    /\ UNCHANGED <<cliVars, globVars, clock, VOICES_DIR, req, accepted, returned, sent>>

\* line 116: send_file(output_path) answers with what the file holds now
tts_send(t) ==
    /\ pc[t] = "tts_send"
    /\ Finish(t, Response(200, "audio", <<OUTPUT_DIR[frame[t].output_path]>>))
    /\ UNCHANGED <<cliVars, globVars, clock, fsVars, accepted, returned>>

\* lines 118-119: any exception of lines 90-116 is answered by the handler
tts_exception(t) ==
    /\ pc[t] \in {"tts_processor", "tts_generate", "tts_decode", "tts_write", "tts_send"}
    /\ Finish(t, Response(500, "error", <<"Exception">>))
    /\ UNCHANGED <<cliVars, globVars, clock, fsVars, accepted, returned>>

\* ------------------------------------------------------------ list_voices
\* lines 124-125: voices = [] and the snapshot os.listdir(VOICES_DIR)
list_dir(t) ==
    /\ pc[t] = "voices"
    /\ frame' = [frame EXCEPT ![t].todo = {d \in IDS : VOICES_DIR[d].dir},
                              ![t].voices = <<>>]
    /\ pc' = [pc EXCEPT ![t] = "list_loop"]
    /\ UNCHANGED <<cliVars, globVars, clock, fsVars, req, accepted, returned, sent>>

\* (mutant) a directory without meta.json is removed while listing
list_entry_cleanup(t) ==
    /\ pc[t] = "list_loop"
    /\ \E d \in frame[t].todo :
        /\ VOICES_DIR[d].meta.file # Empty
        /\ frame' = [frame EXCEPT
              ![t].todo = @ \ {d},
              ![t].voices = IF VOICES_DIR[d].meta.file = NoFile THEN @
                            ELSE Append(@, [voice_id |-> VOICES_DIR[d].meta.voice_id,
                                            name |-> VOICES_DIR[d].meta.name])]
        /\ VOICES_DIR' = IF VOICES_DIR[d].meta.file = NoFile
                         THEN [VOICES_DIR EXCEPT ![d] = NoDir] ELSE VOICES_DIR
    /\ UNCHANGED <<cliVars, globVars, clock, OUTPUT_DIR, pc, req, accepted, returned, sent>>

\* lines 126-129, one iteration: the directory is skipped without meta.json,
\* else the parsed record is appended
list_entry(t) ==
    /\ pc[t] = "list_loop"
    /\ \E d \in frame[t].todo :
        /\ VOICES_DIR[d].meta.file # Empty
        /\ frame' = [frame EXCEPT
              ![t].todo = @ \ {d},
              ![t].voices = IF VOICES_DIR[d].meta.file = NoFile THEN @
                            ELSE Append(@, [voice_id |-> VOICES_DIR[d].meta.voice_id,
                                            name |-> VOICES_DIR[d].meta.name])]
    /\ UNCHANGED <<cliVars, globVars, clock, fsVars, pc, req, accepted, returned, sent>>

\* line 129: json.load of a file without a complete JSON text raises
\* JSONDecodeError, which nothing in the handler catches
list_decode_error(t) ==
    /\ pc[t] = "list_loop"
    /\ \E d \in frame[t].todo : VOICES_DIR[d].meta.file = Empty
    /\ Finish(t, Response(500, "html", <<"JSONDecodeError">>))
    /\ UNCHANGED <<cliVars, globVars, clock, fsVars, accepted, returned>>

\* line 130
list_return(t) ==
    /\ pc[t] = "list_loop"
    /\ frame[t].todo = {}
    /\ Finish(t, Response(200, "voices", frame[t].voices))
    /\ UNCHANGED <<cliVars, globVars, clock, fsVars, accepted, returned>>

\* time passes
Tick ==
    /\ clock < MaxTime
    /\ clock' = clock + 1
    /\ UNCHANGED <<cliVars, globVars, fsVars, thrVars>>

\* ----------------------------------------------- the client (speak.py)
\* The server is the client's environment here: each urlopen call gets one
\* of the outcomes a server, or the lack of one, can produce.

\* command lines: --status, --list, a text (possibly missing or empty) and
\* an optional --voice
ClientArgs == [status : BOOLEAN, list : BOOLEAN,
               text : {Absent, "", "hello"}, voice : {Absent, "id1"}]

\* outcome of urlopen(SERVER/health, timeout=2): an HTTP status, or an
\* exception (connection refused, timeout)
HealthOutcomes == {"200", "204", "503", "refused", "timeout"}

\* lines 19-23: True only for a response with status 200; a 4xx/5xx raises
\* HTTPError inside urlopen and every exception gives False
check_server(outcome) == outcome = "200"

\* outcome of urlopen(POST /v1/tts, timeout=120) and resp.read()
TtsOutcomes ==
    [kind : {"ok"}, code : {"200"}, body : {"wavX", "wavY"}]
    \cup [kind : {"http"}, code : {"400", "500"}, body : {"error"}]
    \cup [kind : {"transport"}, code : {"refused", "timeout"}, body : {""}]

\* outcome of urlopen(SERVER/v1/voices, timeout=5) and json.loads
ListOutcomes ==
    [kind : {"ok"}, voices : {<<>>, <<"id1 - Alice">>}]
    \cup [kind : {"http", "transport", "badjson"}, voices : {<<>>}]

\* os.path.join(OUTPUT_DIR, f"tts_{int(time.time())}.wav")
PathOf(now) == <<"tts_0.wav", "tts_1.wav", "tts_2.wav", "tts_3.wav">>[now + 1]

ClientRunning == cli.pc \notin {"off", "exited"}

\* sys.exit(code), or the end of main() with code 0
Exit(c, code) == [c EXCEPT !.pc = "exited", !.exit = code]

\* a new process: python speak.py ...; lines 12-14 and 83-89
cli_start(args) ==
    /\ ~ClientRunning
    /\ runs < MaxRuns
    /\ runs' = runs + 1
    /\ cli' = [NoClient EXCEPT !.pc = "main", !.argv = args]
    /\ UNCHANGED <<srvVars, clock, CACHE_DIR, saved>>

\* lines 91-96: --status prints one of two lines and exits 0
cli_status ==
    /\ cli.pc = "main"
    /\ cli.argv.status
    /\ \E h \in HealthOutcomes :
        cli' = Exit([cli EXCEPT
                  !.wire = Append(@, "health"),
                  !.stdout = Append(@, IF check_server(h) THEN "en ligne"
                                       ELSE "non demarre"),
                  !.outcome = "status"], 0)
    /\ UNCHANGED <<srvVars, clock, CACHE_DIR, runs, saved>>

\* lines 98-100 and 26-39: --list
cli_list ==
    /\ cli.pc = "main"
    /\ ~cli.argv.status
    /\ cli.argv.list
    /\ \E o \in ListOutcomes :
        cli' = IF o.kind = "ok"
               THEN Exit([cli EXCEPT
                      !.wire = Append(@, "voices"),
                      !.stdout = IF o.voices = <<>> THEN Append(@, "Aucune voix")
                                 ELSE @ \o o.voices,
                      !.outcome = "listed"], 0)
               ELSE Exit([cli EXCEPT
                      !.wire = Append(@, "voices"),
                      !.stderr = Append(@, "Erreur"),
                      !.outcome = "list_failed"], 1)
    /\ UNCHANGED <<srvVars, clock, CACHE_DIR, runs, saved>>

\* (mutant) the missing text is reported but the exit code is 0
cli_no_text_zero ==
    /\ cli.pc = "main"
    /\ ~cli.argv.status
    /\ ~cli.argv.list
    /\ ~Truthy(cli.argv.text)
    /\ cli' = Exit([cli EXCEPT !.stdout = Append(@, "usage"),
                               !.outcome = "no_text"], 0)
    /\ UNCHANGED <<srvVars, clock, CACHE_DIR, runs, saved>>

\* lines 102-104: no text: parser.print_help() and exit 1
cli_no_text ==
    /\ cli.pc = "main"
    /\ ~cli.argv.status
    /\ ~cli.argv.list
    /\ ~Truthy(cli.argv.text)
    /\ cli' = Exit([cli EXCEPT !.stdout = Append(@, "usage"),
                               !.outcome = "no_text"], 1)
    /\ UNCHANGED <<srvVars, clock, CACHE_DIR, runs, saved>>

\* line 106: generate(args.text, args.voice)
cli_generate ==
    /\ cli.pc = "main"
    /\ ~cli.argv.status
    /\ ~cli.argv.list
    /\ Truthy(cli.argv.text)
    /\ cli' = [cli EXCEPT !.pc = "generate"]
    /\ UNCHANGED <<srvVars, clock, CACHE_DIR, runs, saved>>

\* (mutant) the health gate only warns and generate() goes on
cli_health_failed_goes_on ==
    /\ cli.pc = "generate"
    /\ \E h \in HealthOutcomes :
        /\ ~check_server(h)
        /\ cli' = [cli EXCEPT
                  !.wire = Append(@, "health"),
                  !.stderr = @ \o <<"serveur local non demarre", "start.sh">>,
                  !.outcome = "health_failed",
                  !.pc = "urlopen"]
    /\ UNCHANGED <<srvVars, clock, CACHE_DIR, runs, saved>>

\* lines 44-47: the health gate fails: two lines on stderr, exit 1
cli_health_failed ==
    /\ cli.pc = "generate"
    /\ \E h \in HealthOutcomes :
        /\ ~check_server(h)
        /\ cli' = Exit([cli EXCEPT
                  !.wire = Append(@, "health"),
                  !.stderr = @ \o <<"serveur local non demarre", "start.sh">>,
                  !.outcome = "health_failed"], 1)
    /\ UNCHANGED <<srvVars, clock, CACHE_DIR, runs, saved>>

\* lines 44, 49-59: the health gate passes and the request is built
cli_health_ok ==
    /\ cli.pc = "generate"
    /\ \E h \in HealthOutcomes :
        /\ check_server(h)
        /\ cli' = [cli EXCEPT !.wire = Append(@, "health"), !.pc = "urlopen"]
    /\ UNCHANGED <<srvVars, clock, CACHE_DIR, runs, saved>>

\* (mutant) diagnostics of a failed request are printed on stdout
cli_urlopen_stdout ==
    /\ cli.pc = "urlopen"
    /\ \E o \in TtsOutcomes :
        cli' = CASE o.kind = "ok" ->
                      [cli EXCEPT !.wire = Append(@, "tts"), !.body = o.body,
                                  !.pc = "write"]
                 [] o.kind = "http" ->
                      Exit([cli EXCEPT !.wire = Append(@, "tts"),
                                       !.stdout = Append(@, "Erreur API"),
                                       !.outcome = "api_error"], 1)
                 [] OTHER ->
                      Exit([cli EXCEPT !.wire = Append(@, "tts"),
                                       !.stdout = Append(@, "Erreur"),
                                       !.outcome = "transport"], 1)
    /\ UNCHANGED <<srvVars, clock, CACHE_DIR, runs, saved>>

\* lines 61-63 and 73-79: the request goes out; the answer is the audio, an
\* HTTPError (reported with code and body) or another exception
cli_urlopen ==
    /\ cli.pc = "urlopen"
    /\ \E o \in TtsOutcomes :
        cli' = CASE o.kind = "ok" ->
                      [cli EXCEPT !.wire = Append(@, "tts"), !.body = o.body,
                                  !.pc = "write"]
                 [] o.kind = "http" ->
                      Exit([cli EXCEPT !.wire = Append(@, "tts"),
                                       !.stderr = Append(@, "Erreur API"),
                                       !.outcome = "api_error"], 1)
                 [] OTHER ->
                      Exit([cli EXCEPT !.wire = Append(@, "tts"),
                                       !.stderr = Append(@, "Erreur"),
                                       !.outcome = "transport"], 1)
    /\ UNCHANGED <<srvVars, clock, CACHE_DIR, runs, saved>>

\* lines 65-67: open(output_path, "wb") and f.write(audio_data)
cli_write ==
    /\ cli.pc = "write"
    /\ CACHE_DIR' = [CACHE_DIR EXCEPT ![clock] = cli.body]
    /\ cli' = [cli EXCEPT !.output_path = clock, !.wrote = @ \cup {clock},
                          !.pc = "print"]
    /\ UNCHANGED <<srvVars, clock, runs, saved>>

\* lines 66-67 raising OSError, caught at line 77: the file is not there,
\* or was created and is left truncated
cli_write_error ==
    /\ cli.pc = "write"
    /\ \E created \in BOOLEAN :
        /\ CACHE_DIR' = IF created THEN [CACHE_DIR EXCEPT ![clock] = ""]
                        ELSE CACHE_DIR
        /\ cli' = Exit([cli EXCEPT
                  !.output_path = clock,
                  !.wrote = IF created THEN @ \cup {clock} ELSE @,
                  !.stderr = Append(@, "Erreur"),
                  !.outcome = "io_error"], 1)
    /\ UNCHANGED <<srvVars, clock, runs, saved>>

\* lines 70-71 and the end of main(): the path on stdout, exit code 0
cli_print ==
    /\ cli.pc = "print"
    /\ cli' = Exit([cli EXCEPT !.stdout = Append(@, PathOf(cli.output_path)),
                               !.outcome = "success"], 0)
    /\ saved' = Append(saved, [path |-> cli.output_path, bytes |-> cli.body])
    /\ UNCHANGED <<srvVars, clock, CACHE_DIR, runs>>

ClientNext ==
    \/ \E args \in ClientArgs : cli_start(args)
    \/ cli_status
    \/ cli_list
    \/ cli_no_text
    \/ cli_generate
    \/ cli_health_failed
    \/ cli_health_ok
    \/ cli_urlopen
    \/ cli_write
    \/ cli_write_error
    \/ cli_print
    \/ Tick

ClientSpec == Init /\ [][ClientNext]_vars

\* ================================================================== claims

\* C1: Health answers ready only when the model runtime has been loaded: a
\* health handler runs, and a ready answer is sent, only with both globals
\* loaded (never while model is None).
C1_HealthOnlyWhenReady ==
    /\ \A t \in Threads : pc[t] = "health" => model = "loaded" /\ processor = "loaded"
    /\ (sent.req.op = "health" /\ sent.resp.status = 200)
          => model = "loaded" /\ processor = "loaded"

C1_Witness ==
    /\ sent.req.op = "health"
    /\ sent.resp.status = 200
    /\ sent.resp.kind = "health"
    /\ model = "loaded"

\* C2: no two Synthesize requests are inside the inference section of the
\* one loaded model at the same time.
C2_InferenceSerialized ==
    Cardinality({t \in Threads : pc[t] \in InferenceSection}) <= 1

\* C3: every profile directory holds both reference.wav and meta.json or
\* neither of them.
C3_ProfilePairAtomic ==
    \A d \in IDS : (VOICES_DIR[d].audio # NoFile) <=> (VOICES_DIR[d].meta.file # NoFile)

\* C4: the voice ids returned by the Clone requests of one run are pairwise
\* distinct.
C4_ReturnedIdsDistinct ==
    \A i, j \in 1..Len(returned) :
        i # j => returned[i].voice_id # returned[j].voice_id

\* C5: once a Clone has returned, the name, id and reference audio stored
\* for its profile are the ones of that call, whatever Clone calls run
\* beside it or after it.
C5_ProfileNeverOverwritten ==
    \A i \in 1..Len(returned) :
        /\ VOICES_DIR[returned[i].voice_id].audio = returned[i].audio
        /\ VOICES_DIR[returned[i].voice_id].meta
              = MetaJson(returned[i].name, returned[i].voice_id)

\* the entries of a List response that carry voice id v
EntriesOf(data, v) == {k \in 1..Len(data) : data[k].voice_id = v}

\* C6: a List response to a request that came in after Clone(n) returned v
\* holds exactly one entry with id v, and that entry has name n.
C6_ListedExactlyOnce ==
    sent.req.op = "voices" =>
        \A i \in 1..sent.seen :
            /\ sent.resp.status = 200
            /\ Cardinality(EntriesOf(sent.resp.data, returned[i].voice_id)) = 1
            /\ \A k \in EntriesOf(sent.resp.data, returned[i].voice_id) :
                   sent.resp.data[k].name = returned[i].name

\* C7: List voices always succeeds, a directory with a missing or
\* unfinished meta.json being skipped.
C7_ListAlwaysSucceeds ==
    sent.req.op = "voices" => sent.resp.status = 200 /\ sent.resp.kind = "voices"

\* a voiceId that is omitted, empty, or resolves to no stored reference audio
Unresolvable(voice_id) ==
    \/ ~Truthy(voice_id)
    \/ voice_id \notin IDS
    \/ VOICES_DIR[voice_id].audio = NoFile

\* a Synthesize request with non-empty text
HasText(r) == r.op = "tts" /\ r.body = "object" /\ Truthy(Get(r.text, ""))

\* C8: a Synthesize request with text whose voiceId is omitted, empty or
\* unresolvable takes the unconditioned branch and never fails at voice
\* resolution.
C8_UnresolvedFallsBack ==
    /\ \A t \in Threads :
          (HasText(req[t]) /\ Unresolvable(req[t].voice_id) /\ pc[t] # "tts")
              => frame[t].voice_id = ""
    /\ (HasText(sent.req) /\ Unresolvable(sent.req.voice_id))
          => /\ sent.resp.status = 500 => sent.resp.data[1] # "TypeError"
             /\ sent.resp.status = 200 => sent.resp.data[1].ref = Default

\* a request the handlers reject as a client input error
ClientInputError(r) ==
    \/ r.op = "clone" /\ r.audio = Absent
    \/ r.op = "tts" /\ r.body = "object" /\ ~Truthy(Get(r.text, ""))

\* C9: a request rejected as client input error is answered 400 by the
\* first step of its handler, which changes neither directory nor the model
\* globals, and the model is not invoked for it.
C9_RejectedNoSideEffects ==
    /\ [](\A t \in Threads : ClientInputError(req[t]) => pc[t] \in {"clone", "tts"})
    /\ [](ClientInputError(sent.req) => sent.resp.status = 400 /\ ~sent.invoked)
    /\ [][\A t \in Threads :
            ((ClientInputError(req[t]) \/ ClientInputError(req'[t])) /\ pc'[t] # pc[t])
                => UNCHANGED <<VOICES_DIR, OUTPUT_DIR, model, processor>>]_vars

C9_Witness ==
    /\ ClientInputError(sent.req)
    /\ sent.req.op = "tts"
    /\ sent.resp.status = 400
    /\ \E d \in IDS : VOICES_DIR[d].dir

\* C10: every internal failure is answered with a structured error response
\* carrying the failure message, and the process keeps serving.
C10_FailuresStructured ==
    /\ sent.resp.status = 500 => sent.resp.kind = "error"
    /\ sent.resp.status # 0 => main = "serving"

\* the lifecycle state of the model runtime, read off the globals and the
\* position of the __main__ block
RuntimeState ==
    IF model = "loaded" THEN "Ready"
    ELSE IF main = "start" THEN "Unloaded" ELSE "Loading"

\* C11: the runtime state only moves Unloaded -> Loading -> Ready and never
\* leaves Ready; the model is assigned once, inside load_model; no handler
\* runs and nothing is served unless the state is Ready; and after a failed
\* load the process never serves.
C11_LifecycleForwardOnly ==
    /\ [](\A t \in Threads : pc[t] # "idle" => RuntimeState = "Ready" /\ main = "serving")
    /\ [](main = "serving" => RuntimeState = "Ready")
    /\ [](main = "exited" => accepted = 0)
    /\ [][/\ RuntimeState = "Ready" => RuntimeState' = "Ready"
          /\ RuntimeState = "Loading" => RuntimeState' \in {"Loading", "Ready"}
          /\ model' # model => model = "None" /\ main = "load_model"
          /\ main = "exited" => main' = "exited"
          /\ main = "serving" => main' = "serving"]_vars

C11_Witness ==
    /\ main = "serving"
    /\ RuntimeState = "Ready"
    /\ \E t \in Threads : pc[t] \in {"tts_generate", "clone_save", "list_loop"}

\* the steps of the handler running in thread t
HandlerStep(t) ==
    \/ health(t)
    \/ clone_no_audio(t) \/ clone_makedirs(t) \/ clone_save(t) \/ clone_open(t)
    \/ clone_dump(t) \/ clone_return(t)
    \/ list_dir(t) \/ list_entry(t) \/ list_decode_error(t) \/ list_return(t)

RegistryOps == {"health", "clone", "voices"}
RegistryRequests == {r \in Requests : r.op \in RegistryOps}

\* C15: a Clone, List or Health request is never blocked by another request:
\* whenever the server has a thread left for it the request can start, and
\* its handler can take its next step in every state, whatever the other
\* threads are in the middle of.
C15_RegistryOpsNeverBlocked ==
    /\ \A t \in Threads : req[t].op \in RegistryOps => ENABLED HandlerStep(t)
    /\ (main = "serving" /\ accepted < MaxRequests /\ \E t \in Threads : Free(t))
          => \A r \in RegistryRequests : ENABLED (\E t \in Threads : Accept(t, r))

C15_Witness ==
    \E t, u \in Threads :
        /\ pc[t] \in InferenceSection
        /\ req[u].op \in RegistryOps
        /\ pc[u] \in {"health", "clone_open", "list_loop"}

\* C16: a Clone request whose audio part is present but holds zero bytes is
\* answered as a client error and registers no profile.
C16_EmptyAudioRejected ==
    /\ (sent.req.op = "clone" /\ sent.req.audio = "") => sent.resp.status = 400
    /\ \A i \in 1..Len(returned) : returned[i].audio # ""
    /\ \A d \in IDS : VOICES_DIR[d].audio # ""

\* C18: the file a Synthesize request wrote still holds that request's own
\* audio when the request sends it, and a successful response carries the
\* audio synthesized from the request's own text and voice.
C18_ResponseCarriesOwnAudio ==
    \A t \in Threads :
        pc[t] = "tts_send" => OUTPUT_DIR[frame[t].output_path] = Wav(frame[t].inputs)

\* C19: the registry is changed only by a step of a Clone handler that got
\* an audio part, and the output directory only by the write step of a
\* Synthesize handler; Synthesize, List and Health never change the registry
\* and Clone, List and Health never change the output directory.
C19_FrameEffects ==
    [][/\ VOICES_DIR' # VOICES_DIR =>
            \E t \in Threads : /\ req[t].op = "clone"
                               /\ req[t].audio # Absent
                               /\ pc'[t] # pc[t]
       /\ OUTPUT_DIR' # OUTPUT_DIR =>
            \E t \in Threads : /\ req[t].op = "tts"
                               /\ pc[t] = "tts_write"
                               /\ pc'[t] = "tts_send"]_vars

C19_Witness ==
    /\ sent.req.op = "voices"
    /\ sent.resp.status = 200
    /\ \E d \in IDS : VOICES_DIR[d].dir /\ VOICES_DIR[d].meta.file = NoFile
    /\ \E c \in Times : OUTPUT_DIR[c].file # NoFile

\* the positions of the client inside generate()
InGenerate == {"generate", "urlopen", "write", "print"}

\* C12: in generate() the synthesize request goes out only right after a
\* health check of the same invocation that succeeded; when the health
\* check fails the client exits with code 1, has sent no synthesize request
\* and has created no file.
C12_HealthGateBeforeSynthesize ==
    /\ \A i \in 1..Len(cli.wire) :
          cli.wire[i] = "tts" =>
              /\ i > 1
              /\ cli.wire[i - 1] = "health"
              /\ cli.outcome # "health_failed"
    /\ cli.outcome = "health_failed" =>
          /\ cli.pc = "exited"
          /\ cli.exit = 1
          /\ \A i \in 1..Len(cli.wire) : cli.wire[i] # "tts"
          /\ cli.wrote = {}

C12_Witness ==
    /\ cli.outcome = "health_failed"
    /\ cli.pc = "exited"
    /\ cli.wire = <<"health">>
    /\ \A c \in Times : CACHE_DIR[c] = NoFile

\* C13: stdout of a generate() invocation holds exactly the path of the
\* written file after a successful response, and nothing at any other point
\* of generate() nor after a failed health check, an API error response or
\* a transport failure, in which cases no cache file was created either.
C13_StdoutIsThePathOnly ==
    /\ cli.outcome = "success" =>
          /\ cli.stdout = <<PathOf(cli.output_path)>>
          /\ cli.wrote = {cli.output_path}
          /\ CACHE_DIR[cli.output_path] # NoFile
    /\ cli.pc \in InGenerate => cli.stdout = <<>>
    /\ cli.outcome \in {"health_failed", "api_error", "transport"} =>
          /\ cli.stdout = <<>>
          /\ cli.wrote = {}

C13_Witness ==
    /\ cli.outcome = "success"
    /\ cli.pc = "exited"
    /\ cli.stdout = <<PathOf(cli.output_path)>>
    /\ cli.stderr = <<>>

\* C14: the client exits with code 0 exactly after a successful generation,
\* a successful listing or a status check, and with code 1 after every
\* failure: health gate, HTTP error, transport error, failed listing,
\* missing text.
C14_ExitCodes ==
    cli.pc = "exited" =>
        /\ cli.exit \in {0, 1}
        /\ cli.exit = 0 <=> cli.outcome \in {"success", "listed", "status"}
        /\ cli.outcome \in {"health_failed", "api_error", "transport",
                            "list_failed", "no_text", "io_error"} => cli.exit = 1

C14_Witness ==
    /\ cli.pc = "exited"
    /\ cli.outcome = "status"
    /\ cli.stdout = <<"non demarre">>
    /\ cli.exit = 0

\* C17: every successful generate() leaves a file of its own: the paths of
\* the successful invocations are pairwise distinct and each file still
\* holds the bytes of its own response.
C17_FreshCacheFile ==
    /\ \A i, j \in 1..Len(saved) : i # j => saved[i].path # saved[j].path
    /\ cli.outcome = "success" =>
          \A i \in 1..Len(saved) : CACHE_DIR[saved[i].path] = saved[i].bytes

Next ==
    \/ load_processor
    \/ load_model
    \/ load_fail
    \/ app_run
    \/ Tick
    \/ \E t \in Threads : \E r \in Requests : Accept(t, r)
    \/ \E t \in Threads : health(t)
    \/ \E t \in Threads : clone_no_audio(t)
    \/ \E t \in Threads : clone_makedirs(t)
    \/ \E t \in Threads : clone_save(t)
    \/ \E t \in Threads : clone_open(t)
    \/ \E t \in Threads : clone_dump(t)
    \/ \E t \in Threads : clone_return(t)
    \/ \E t \in Threads : clone_io_error(t)
    \/ \E t \in Threads : tts_bad_body(t)
    \/ \E t \in Threads : tts_no_text(t)
    \/ \E t \in Threads : tts_resolve(t)
    \/ \E t \in Threads : tts_resolve_error(t)
    \/ \E t \in Threads : tts_processor(t)
    \/ \E t \in Threads : tts_generate(t)
    \/ \E t \in Threads : tts_decode(t)
    \/ \E t \in Threads : tts_write(t)
    \/ \E t \in Threads : tts_send(t)
    \/ \E t \in Threads : tts_exception(t)
    \/ \E t \in Threads : list_dir(t)
    \/ \E t \in Threads : list_entry(t)
    \/ \E t \in Threads : list_decode_error(t)
    \/ \E t \in Threads : list_return(t)

Spec == Init /\ [][Next]_vars
====
